---- MODULE Spec2Model ----
(***************************************************************************)
(* Model of api/kv/kv.go: the key/value loader of kustomize with age       *)
(* decryption.  Go strings and byte slices are sequences of one-byte       *)
(* tokens: "LF" is '\n', "CR" is '\r', "SP" is ' ', "dq" is '"', "sq" is   *)
(* the single quote, "BOM" is the three-byte UTF-8 byte order mark, "BAD"  *)
(* is a byte that is not valid UTF-8, "HDR" is the age armor header line   *)
(* and "ENC1"/"ENC2" mark age ciphertext for the recipient 1 or 2.  Every  *)
(* other token is the ASCII character it spells.                           *)
(***************************************************************************)
EXTENDS Integers, Sequences, FiniteSets, TLC

VARIABLES
    pc,         \* position of the running call
    args,       \* types.KvPairSources given to Load
    validator,  \* which ifc.Validator the loader was built with
    i,          \* index of the next source of the current list (1-based)
    ids,        \* age identities resolved by getAgeIdentities
    kvs,        \* pairs collected by the current keyValuesFrom* loop
    all,        \* Load's accumulator
    result,     \* what Load returned: [pairs, err]
    log,        \* external calls made so far (loader, validator, decrypt)
    input,      \* argument of the pure function under test
    output      \* its result

vars == <<pc, args, validator, i, ids, kvs, all, result, log, input, output>>

(***************************************************************************)
(* Bounds of the model.                                                    *)
(***************************************************************************)
MaxLitLen == 5
MaxContentLen == 4
MaxSrc == 3

(***************************************************************************)
(* Go standard library helpers, on token sequences.                        *)
(***************************************************************************)
HasPrefix(s, p) == Len(s) >= Len(p) /\ SubSeq(s, 1, Len(p)) = p

HasSuffix(s, p) == Len(s) >= Len(p) /\ SubSeq(s, Len(s) - Len(p) + 1, Len(s)) = p

\* strings.Index(s, c) for a one-byte separator: 0-based, -1 when absent
Index(s, c) ==
    IF \E k \in 1..Len(s) : s[k] = c
    THEN (CHOOSE k \in 1..Len(s) : s[k] = c /\ \A j \in 1..(k - 1) : s[j] # c) - 1
    ELSE -1

\* strings.LastIndex(s, c): 0-based, -1 when absent
LastIndex(s, c) ==
    IF \E k \in 1..Len(s) : s[k] = c
    THEN (CHOOSE k \in 1..Len(s) : s[k] = c /\ \A j \in (k + 1)..Len(s) : s[j] # c) - 1
    ELSE -1

Count(s, c) == Cardinality({k \in 1..Len(s) : s[k] = c})

\* strings.SplitN(s, sep, 2)
SplitN2(s, sep) ==
    LET n == Index(s, sep)
    IN  IF n = -1 THEN <<s>>
        ELSE <<SubSeq(s, 1, n), SubSeq(s, n + 2, Len(s))>>

RECURSIVE TrimLeft(_, _)
TrimLeft(s, cutset) ==
    IF s # <<>> /\ Head(s) \in cutset THEN TrimLeft(Tail(s), cutset) ELSE s

RECURSIVE TrimRight(_, _)
TrimRight(s, cutset) ==
    IF s # <<>> /\ s[Len(s)] \in cutset
    THEN TrimRight(SubSeq(s, 1, Len(s) - 1), cutset)
    ELSE s

Trim(s, cutset) == TrimRight(TrimLeft(s, cutset), cutset)

TrimPrefix(s, p) == IF HasPrefix(s, p) THEN SubSeq(s, Len(p) + 1, Len(s)) ELSE s

TrimSuffix(s, p) == IF HasSuffix(s, p) THEN SubSeq(s, 1, Len(s) - Len(p)) ELSE s

\* path.Base
Base(p) ==
    IF p = <<>> THEN <<".">>
    ELSE LET q == TrimRight(p, {"/"})
             n == LastIndex(q, "/")
             r == IF n >= 0 THEN SubSeq(q, n + 2, Len(q)) ELSE q
         IN  IF r = <<>> THEN <<"/">> ELSE r

AgeSuffix == <<".", "a", "g", "e">>
YamlSuffix == <<".", "y", "a", "m", "l">>
YmlSuffix == <<".", "y", "m", "l">>
\* the cutset of strings.TrimRight(k, ".age")
AgeCutset == {".", "a", "g", "e"}
\* the cutset of strings.Trim(items[1], "\"'")
QuoteCutset == {"dq", "sq"}
utf8bom == <<"BOM">>
ArmorHeader == <<"HDR">>

Pair(k, v) == [Key |-> k, Value |-> v]

\* the validators a loader is built with
Validators == {"envname", "fake"}

\* Load has not been given sources
NoArgs ==
    [AgeIdentitySources |-> <<>>, EnvSources |-> <<>>,
     LiteralSources |-> <<>>, FileSources |-> <<>>]

\* Load has not returned
NoResult == [pairs |-> <<>>, err |-> "none"]

(***************************************************************************)
(* parseLiteralSource                                                      *)
(***************************************************************************)
\* variant: quotes are trimmed at the leading end only
parseLiteralSourceLeftOnly(source) ==
    IF Index(source, "=") = 0 THEN [key |-> <<>>, value |-> <<>>, err |-> TRUE]
    ELSE LET items == SplitN2(source, "=")
         IN  IF Len(items) # 2 THEN [key |-> <<>>, value |-> <<>>, err |-> TRUE]
             ELSE [key |-> items[1], value |-> TrimLeft(items[2], QuoteCutset),
                   err |-> FALSE]

parseLiteralSource(source) ==
    IF Index(source, "=") = 0 THEN [key |-> <<>>, value |-> <<>>, err |-> TRUE]
    ELSE LET items == SplitN2(source, "=")
         IN  IF Len(items) # 2 THEN [key |-> <<>>, value |-> <<>>, err |-> TRUE]
             ELSE [key |-> items[1], value |-> Trim(items[2], QuoteCutset),
                   err |-> FALSE]

(***************************************************************************)
(* parseFileSource                                                         *)
(***************************************************************************)
parseFileSource(source) ==
    LET numSeparators == Count(source, "=")
    IN  CASE numSeparators = 0 ->
               [keyName |-> Base(source), filePath |-> source, err |-> FALSE]
          [] numSeparators = 1 /\ HasPrefix(source, <<"=">>) ->
               [keyName |-> <<>>, filePath |-> <<>>, err |-> TRUE]
          [] numSeparators = 1 /\ ~HasPrefix(source, <<"=">>)
                               /\ HasSuffix(source, <<"=">>) ->
               [keyName |-> <<>>, filePath |-> <<>>, err |-> TRUE]
          [] numSeparators > 1 ->
               [keyName |-> <<>>, filePath |-> <<>>, err |-> TRUE]
          [] OTHER ->
               LET n == Index(source, "=")
               IN  [keyName |-> SubSeq(source, 1, n),
                    filePath |-> SubSeq(source, n + 2, Len(source)),
                    err |-> FALSE]

(***************************************************************************)
(* External collaborators of the env-file parser.                          *)
(***************************************************************************)
\* tokens that can never occur in an environment variable name
NonNameTokens ==
    {"=", "#", "SP", "LF", "CR", "BOM", "BAD", "dq", "sq", "HDR", "ENC1", "ENC2", "/"}

\* ifc.Validator.IsEnvVarName: "envname" is the production field validator
\* ([-._a-zA-Z][-._a-zA-Z0-9]*), "fake" is a validator that accepts every name
IsEnvVarName(key) ==
    \/ validator = "fake"
    \/ /\ validator = "envname"
       /\ key # <<>>
       /\ \A k \in 1..Len(key) : key[k] \notin NonNameTokens

\* os.Getenv in the process environment {A=e}: unset names give ""
Getenv(key) == IF key = <<"A">> THEN <<"e">> ELSE <<>>

\* unicode.IsSpace on the tokens of the model
IsSpace == {"SP", "CR", "LF"}

\* utf8.Valid
Utf8Valid(line) == \A k \in 1..Len(line) : line[k] # "BAD"

(***************************************************************************)
(* bufio.Scanner with the default split function bufio.ScanLines           *)
(***************************************************************************)
dropCR(data) ==
    IF data # <<>> /\ data[Len(data)] = "CR" THEN SubSeq(data, 1, Len(data) - 1) ELSE data

RECURSIVE ScanLines(_)
ScanLines(data) ==
    IF data = <<>> THEN <<>>
    ELSE LET n == Index(data, "LF")
         IN  IF n >= 0
             THEN <<dropCR(SubSeq(data, 1, n))>> \o ScanLines(SubSeq(data, n + 2, Len(data)))
             ELSE <<dropCR(data)>>

(***************************************************************************)
(* keyValuesFromLine: [kv, err, checked], checked being the validator      *)
(* calls made, as [key, ok] records.                                       *)
(***************************************************************************)
\* variant: the key is not handed to the validator
keyValuesFromLineUnchecked(line, currentLine) ==
    IF ~Utf8Valid(line) THEN [kv |-> Pair(<<>>, <<>>), err |-> TRUE, checked |-> <<>>]
    ELSE LET l1 == IF currentLine = 0 THEN TrimPrefix(line, utf8bom) ELSE line
             l2 == TrimLeft(l1, IsSpace)
         IN  IF l2 = <<>> \/ l2[1] = "#"
             THEN [kv |-> Pair(<<>>, <<>>), err |-> FALSE, checked |-> <<>>]
             ELSE LET data == SplitN2(l2, "=")
                      key  == data[1]
                  IN  [kv |-> Pair(key, IF Len(data) = 2 THEN data[2] ELSE Getenv(key)),
                       err |-> FALSE, checked |-> <<>>]

\* variant: the value is trimmed of whitespace and quotes
keyValuesFromLineTrimmed(line, currentLine) ==
    IF ~Utf8Valid(line) THEN [kv |-> Pair(<<>>, <<>>), err |-> TRUE, checked |-> <<>>]
    ELSE LET l1 == IF currentLine = 0 THEN TrimPrefix(line, utf8bom) ELSE line
             l2 == TrimLeft(l1, IsSpace)
         IN  IF l2 = <<>> \/ l2[1] = "#"
             THEN [kv |-> Pair(<<>>, <<>>), err |-> FALSE, checked |-> <<>>]
             ELSE LET data == SplitN2(l2, "=")
                      key  == data[1]
                  IN  IF ~IsEnvVarName(key)
                      THEN [kv |-> Pair(<<>>, <<>>), err |-> TRUE,
                            checked |-> <<[key |-> key, ok |-> FALSE]>>]
                      ELSE [kv |-> Pair(key, IF Len(data) = 2
                                             THEN Trim(data[2], IsSpace \cup QuoteCutset)
                                             ELSE Getenv(key)),
                            err |-> FALSE,
                            checked |-> <<[key |-> key, ok |-> TRUE]>>]

keyValuesFromLine(line, currentLine) ==
    IF ~Utf8Valid(line) THEN [kv |-> Pair(<<>>, <<>>), err |-> TRUE, checked |-> <<>>]
    ELSE LET l1 == IF currentLine = 0 THEN TrimPrefix(line, utf8bom) ELSE line
             l2 == TrimLeft(l1, IsSpace)
         IN  IF l2 = <<>> \/ l2[1] = "#"
             THEN [kv |-> Pair(<<>>, <<>>), err |-> FALSE, checked |-> <<>>]
             ELSE LET data == SplitN2(l2, "=")
                      key  == data[1]
                  IN  IF ~IsEnvVarName(key)
                      THEN [kv |-> Pair(<<>>, <<>>), err |-> TRUE,
                            checked |-> <<[key |-> key, ok |-> FALSE]>>]
                      ELSE [kv |-> Pair(key, IF Len(data) = 2 THEN data[2] ELSE Getenv(key)),
                            err |-> FALSE,
                            checked |-> <<[key |-> key, ok |-> TRUE]>>]

(***************************************************************************)
(* keyValuesFromLines: the scanner loop, [kvs, err, checked]               *)
(***************************************************************************)
\* variant: blank and comment lines are not skipped
RECURSIVE scanLoopKeepAll(_, _, _, _)
scanLoopKeepAll(lines, currentLine, acc, checked) ==
    IF lines = <<>> THEN [kvs |-> acc, err |-> FALSE, checked |-> checked]
    ELSE LET r == keyValuesFromLine(Head(lines), currentLine)
         IN  IF r.err
             THEN [kvs |-> <<>>, err |-> TRUE, checked |-> checked \o r.checked]
             ELSE scanLoopKeepAll(Tail(lines), currentLine + 1,
                                  Append(acc, r.kv), checked \o r.checked)

RECURSIVE scanLoop(_, _, _, _)
scanLoop(lines, currentLine, acc, checked) ==
    IF lines = <<>> THEN [kvs |-> acc, err |-> FALSE, checked |-> checked]
    ELSE LET r == keyValuesFromLine(Head(lines), currentLine)
         IN  IF r.err
             THEN [kvs |-> <<>>, err |-> TRUE, checked |-> checked \o r.checked]
             ELSE scanLoop(Tail(lines), currentLine + 1,
                           IF Len(r.kv.Key) = 0 THEN acc ELSE Append(acc, r.kv),
                           checked \o r.checked)

keyValuesFromLines(content) == scanLoop(ScanLines(content), 0, <<>>, <<>>)

(***************************************************************************)
(* The world outside the loader: the files behind ldr and rootLdr, the     *)
(* age library, the SSH keys of the home directory.                        *)
(***************************************************************************)
\* the files ifc.Loader serves; any other path fails to load
LoaderPaths ==
    {<<"e">>, <<"e", ".", "a", "g", "e">>, <<"b">>, <<"c">>,
     <<"d", "/", "p", "a", ".", "a", "g", "e">>,
     <<"y", ".", "y", "m", "l", ".", "a", "g", "e">>,
     <<"z", ".", "y", "a", "m", "l", ".", "a", "g", "e">>,
     <<"q", ".", "a", "g", "e">>,
     <<"y", ".", "y", "m", "l", "a", ".", "a", "g", "e">>}

LoaderContent(path) ==
    CASE path = <<"e">> -> <<"A", "=", "v", "LF", "#", "LF", "A", "=", "w">>
      [] path = <<"e", ".", "a", "g", "e">> -> <<"ENC1", "B", "=", "v", "LF", "A">>
      [] path = <<"b">> -> <<"A", "=", "v", "LF", "=", "w", "LF", "BAD">>
      [] path = <<"c">> -> <<"ENC1", "s">>
      [] path = <<"d", "/", "p", "a", ".", "a", "g", "e">> -> <<"ENC1", "s">>
      [] path = <<"y", ".", "y", "m", "l", ".", "a", "g", "e">> -> <<"y", "ENC1", "s">>
      [] path = <<"z", ".", "y", "a", "m", "l", ".", "a", "g", "e">> -> <<"HDR", "ENC1", "s">>
      [] path = <<"q", ".", "a", "g", "e">> -> <<"ENC2", "t">>
      [] path = <<"y", ".", "y", "m", "l", "a", ".", "a", "g", "e">> -> <<"y", "ENC2", "s">>
      [] OTHER -> <<>>

\* ifc.Loader.Load
ldrLoad(path) ==
    IF path \in LoaderPaths THEN [content |-> LoaderContent(path), err |-> FALSE]
    ELSE [content |-> <<>>, err |-> TRUE]

\* filepath.Abs with the working directory "/"
Abs(path) == IF HasPrefix(path, <<"/">>) THEN path ELSE <<"/">> \o path

\* rootLdr.Load: /i holds an age identity, /j holds text that is none
rootLdrLoad(path) ==
    CASE path = <<"/", "i">> -> [content |-> <<"KEY1">>, err |-> FALSE]
      [] path = <<"/", "j">> -> [content |-> <<"junk">>, err |-> FALSE]
      [] OTHER -> [content |-> <<>>, err |-> TRUE]

\* age.ParseIdentities
ParseIdentities(content) ==
    IF content = <<"KEY1">> THEN [ids |-> <<"id1">>, err |-> FALSE]
    ELSE [ids |-> <<>>, err |-> TRUE]

\* $HOME/.ssh: id_rsa cannot be read, id_ed25519 holds a usable key
SSHPaths == <<"id_rsa", "id_ed25519">>

ReadFile(path) ==
    IF path = "id_ed25519" THEN [content |-> <<"SSHKEY">>, err |-> FALSE]
    ELSE [content |-> <<>>, err |-> TRUE]

parseSSHIdentity(path, content) ==
    IF content = <<"SSHKEY">> THEN [ids |-> <<"ssh">>, err |-> FALSE]
    ELSE [ids |-> <<>>, err |-> TRUE]

\* the identity an age ciphertext token is encrypted to
Recipient(tok) == IF tok = "ENC1" THEN "id1" ELSE "ssh"

IsCipher(tok) == tok \in {"ENC1", "ENC2"}

Holds(idl, id) == \E k \in 1..Len(idl) : idl[k] = id

\* decryptValueWithAge: the whole content is one ciphertext, armored or not
decryptValueWithAge(content, idl) ==
    LET body == TrimPrefix(content, ArmorHeader)
    IN  IF body # <<>> /\ IsCipher(body[1]) /\ Holds(idl, Recipient(body[1]))
        THEN [content |-> Tail(body), err |-> FALSE]
        ELSE [content |-> <<>>, err |-> TRUE]

\* decryptInlineYAMLWithAge: every ciphertext scalar of the document is
\* replaced by its plaintext, the rest of the document is kept
RECURSIVE DecryptScalars(_)
DecryptScalars(content) ==
    IF content = <<>> THEN <<>>
    ELSE (IF IsCipher(Head(content)) THEN <<>> ELSE <<Head(content)>>)
         \o DecryptScalars(Tail(content))

decryptInlineYAMLWithAge(content, idl) ==
    IF \A k \in 1..Len(content) :
          IsCipher(content[k]) => Holds(idl, Recipient(content[k]))
    THEN [content |-> DecryptScalars(content), err |-> FALSE]
    ELSE [content |-> <<>>, err |-> TRUE]

(***************************************************************************)
(* The log of external calls: one record per call.                         *)
(***************************************************************************)
Ev(op, stage, idx, arg, ok, out) ==
    [op |-> op, stage |-> stage, idx |-> idx, arg |-> arg, ok |-> ok, out |-> out]

RECURSIVE ValidateEvents(_, _, _)
ValidateEvents(checked, stage, idx) ==
    IF checked = <<>> THEN <<>>
    ELSE <<Ev("validate", stage, idx, Head(checked).key, Head(checked).ok, <<>>)>>
         \o ValidateEvents(Tail(checked), stage, idx)

RECURSIVE EmitEvents(_, _, _)
EmitEvents(pairs, stage, idx) ==
    IF pairs = <<>> THEN <<>>
    ELSE <<Ev("emit", stage, idx, Head(pairs).Key, TRUE, Head(pairs).Value)>>
         \o EmitEvents(Tail(pairs), stage, idx)

(***************************************************************************)
(* getAgeIdentities: [ids, err, events]                                    *)
(***************************************************************************)
RECURSIVE explicitIdentities(_, _, _, _)
explicitIdentities(sources, idx, acc, events) ==
    IF idx > Len(sources) THEN [ids |-> acc, err |-> FALSE, events |-> events]
    ELSE LET path    == Abs(sources[idx])
             ld      == rootLdrLoad(path)
             evLoad  == Ev("loadIdentity", "ids", idx, path, ~ld.err, ld.content)
             parsed  == ParseIdentities(ld.content)
             evParse == Ev("parseIdentity", "ids", idx, ld.content, ~parsed.err, <<>>)
         IN  IF ld.err
             THEN [ids |-> <<>>, err |-> TRUE, events |-> Append(events, evLoad)]
             ELSE IF parsed.err
             THEN [ids |-> <<>>, err |-> TRUE, events |-> events \o <<evLoad, evParse>>]
             ELSE explicitIdentities(sources, idx + 1, acc \o parsed.ids,
                                     events \o <<evLoad, evParse>>)

RECURSIVE sshIdentities(_, _, _)
sshIdentities(paths, idx, acc) ==
    IF idx > Len(paths) THEN acc
    ELSE LET rd     == ReadFile(paths[idx])
             sshids == parseSSHIdentity(paths[idx], rd.content)
         IN  IF rd.err \/ sshids.err
             THEN sshIdentities(paths, idx + 1, acc)
             ELSE sshIdentities(paths, idx + 1, acc \o sshids.ids)

getAgeIdentities(sources) ==
    LET explicit == explicitIdentities(sources, 1, <<>>, <<>>)
    IN  IF explicit.err THEN explicit
        ELSE [ids |-> sshIdentities(SSHPaths, 1, explicit.ids), err |-> FALSE,
              events |-> explicit.events]

(***************************************************************************)
(* One iteration of each keyValuesFrom* loop: [pairs, err, events]         *)
(***************************************************************************)
envIsAge(p) == HasSuffix(p, AgeSuffix)

literalIsAge(k) == HasSuffix(k, AgeSuffix)

\* variant: the key is tested instead of the path
fileIsAgeByKey(k, fPath) == HasSuffix(k, AgeSuffix)

fileIsAge(k, fPath) == HasSuffix(fPath, AgeSuffix)

\* k = strings.TrimRight(k, ".age")
stripAge(k) == TrimRight(k, AgeCutset)

hasYAMLSuffix(k) == HasSuffix(k, YamlSuffix) \/ HasSuffix(k, YmlSuffix)

literalUsesInlineYAML(k, content) == hasYAMLSuffix(k)

\* variant: the armor header is not looked at
fileUsesInlineYAMLByName(k, content) == hasYAMLSuffix(k)

fileUsesInlineYAML(k, content) == hasYAMLSuffix(k) /\ ~HasPrefix(content, ArmorHeader)

\* the decryption branch shared by the literal and the file loop
decryptBranch(inline, content, idl, stage, idx) ==
    LET dec == IF inline THEN decryptInlineYAMLWithAge(content, idl)
               ELSE decryptValueWithAge(content, idl)
    IN  [content |-> dec.content, err |-> dec.err,
         events |-> <<Ev(IF inline THEN "decryptInlineYAML" ELSE "decryptValue",
                         stage, idx, content, ~dec.err, dec.content)>>]

envFileBody(p, idx, idl) ==
    LET ld     == ldrLoad(p)
        evLoad == <<Ev("load", "env", idx, p, ~ld.err, ld.content)>>
    IN  IF ld.err THEN [pairs |-> <<>>, err |-> TRUE, events |-> evLoad]
        ELSE LET dec == IF envIsAge(p)
                        THEN decryptBranch(FALSE, ld.content, idl, "env", idx)
                        ELSE [content |-> ld.content, err |-> FALSE, events |-> <<>>]
             IN  IF dec.err
                 THEN [pairs |-> <<>>, err |-> TRUE, events |-> evLoad \o dec.events]
                 ELSE LET more == keyValuesFromLines(dec.content)
                      IN  [pairs |-> more.kvs, err |-> more.err,
                           events |-> evLoad \o dec.events
                                      \o ValidateEvents(more.checked, "env", idx)
                                      \o <<Ev("lines", "env", idx, dec.content,
                                              ~more.err, <<>>)>>
                                      \o EmitEvents(more.kvs, "env", idx)]

literalSourceBody(s, idx, idl) ==
    LET parsed  == parseLiteralSource(s)
        evParse == <<Ev("parse", "literal", idx, s, ~parsed.err, <<>>)>>
    IN  IF parsed.err THEN [pairs |-> <<>>, err |-> TRUE, events |-> evParse]
        ELSE IF literalIsAge(parsed.key)
        THEN LET k   == stripAge(parsed.key)
                 dec == decryptBranch(literalUsesInlineYAML(k, parsed.value),
                                      parsed.value, idl, "literal", idx)
             IN  IF dec.err
                 THEN [pairs |-> <<>>, err |-> TRUE, events |-> evParse \o dec.events]
                 ELSE [pairs |-> <<Pair(k, dec.content)>>, err |-> FALSE,
                       events |-> evParse \o dec.events
                                  \o EmitEvents(<<Pair(k, dec.content)>>, "literal", idx)]
        ELSE [pairs |-> <<Pair(parsed.key, parsed.value)>>, err |-> FALSE,
              events |-> evParse
                         \o EmitEvents(<<Pair(parsed.key, parsed.value)>>, "literal", idx)]

fileSourceBody(s, idx, idl) ==
    LET parsed  == parseFileSource(s)
        evParse == <<Ev("parse", "file", idx, s, ~parsed.err, <<>>)>>
        ld      == ldrLoad(parsed.filePath)
        evLoad  == <<Ev("load", "file", idx, parsed.filePath, ~ld.err, ld.content)>>
    IN  IF parsed.err THEN [pairs |-> <<>>, err |-> TRUE, events |-> evParse]
        ELSE IF ld.err THEN [pairs |-> <<>>, err |-> TRUE, events |-> evParse \o evLoad]
        ELSE IF fileIsAge(parsed.keyName, parsed.filePath)
        THEN LET k   == stripAge(parsed.keyName)
                 dec == decryptBranch(fileUsesInlineYAML(k, ld.content),
                                      ld.content, idl, "file", idx)
             IN  IF dec.err
                 THEN [pairs |-> <<>>, err |-> TRUE,
                       events |-> evParse \o evLoad \o dec.events]
                 ELSE [pairs |-> <<Pair(k, dec.content)>>, err |-> FALSE,
                       events |-> evParse \o evLoad \o dec.events
                                  \o EmitEvents(<<Pair(k, dec.content)>>, "file", idx)]
        ELSE [pairs |-> <<Pair(parsed.keyName, ld.content)>>, err |-> FALSE,
              events |-> evParse \o evLoad
                         \o EmitEvents(<<Pair(parsed.keyName, ld.content)>>, "file", idx)]

(***************************************************************************)
(* Load                                                                    *)
(***************************************************************************)
\* return nil, errors.Wrap(err, ...)
\* variant: the pairs collected so far are returned with the error
failedPartial(category, partial) == [pairs |-> partial, err |-> category]

\* return nil, errors.Wrap(err, ...)
failed(category, partial) == [pairs |-> <<>>, err |-> category]

\* append(all, pairs...)
\* variant: the new pairs go in front
appendPairsFront(acc, pairs) == pairs \o acc

\* append(all, pairs...)
appendPairs(acc, pairs) == acc \o pairs

\* variant: a failed source is skipped and the loop goes on
stepFailsSkip(r) == FALSE

\* if err != nil { return nil, err } inside the three loops
stepFails(r) == r.err

EnvChoices == {<<"e">>, <<"e", ".", "a", "g", "e">>, <<"b">>}

LiteralChoices ==
    {<<"A", "=", "dq", "w", "dq">>,
     <<"p", "a", ".", "a", "g", "e", "=", "ENC1", "s">>,
     <<"y", ".", "y", "m", "l", ".", "a", "g", "e", "=", "y", "ENC1", "s">>,
     <<"y", ".", "y", "a", "m", "l", ".", "a", "g", "e", "=", "HDR", "ENC1", "s">>,
     <<"=", "v">>}

FileChoices ==
    {<<"k", "=", "c">>,
     <<"d", "/", "p", "a", ".", "a", "g", "e">>,
     <<"y", ".", "y", "m", "l", ".", "a", "g", "e">>,
     <<"z", ".", "y", "a", "m", "l", ".", "a", "g", "e">>,
     <<"k", "a", "=", "q", ".", "a", "g", "e">>,
     <<"y", ".", "y", "m", "l", "a", ".", "a", "g", "e">>,
     <<"=", "c">>,
     <<"x">>}

IdentityChoices == {<<>>, <<<<"i">>>>, <<<<"j">>>>, <<<<"n">>>>, <<<<"i">>, <<"j">>>>}

Init ==
    /\ pc = "ids"
    /\ validator \in Validators
    /\ \E ne \in 0..MaxSrc : \E nl \in 0..(MaxSrc - ne) : \E nf \in 0..(MaxSrc - ne - nl) :
         \E a \in IdentityChoices, e \in [1..ne -> EnvChoices],
            l \in [1..nl -> LiteralChoices], f \in [1..nf -> FileChoices] :
              args = [AgeIdentitySources |-> a, EnvSources |-> e,
                      LiteralSources |-> l, FileSources |-> f]
    /\ i = 1 /\ ids = <<>> /\ kvs = <<>> /\ all = <<>>
    /\ result = NoResult /\ log = <<>>
    /\ input = <<>> /\ output = <<>>

\* Load, lines 51-56
GetAgeIdentities ==
    /\ pc = "ids"
    /\ LET r == getAgeIdentities(args.AgeIdentitySources)
       IN  /\ log' = log \o r.events
           /\ IF r.err
              THEN /\ result' = failed("age identity source files", all)
                   /\ pc' = "done"
                   /\ ids' = ids
              ELSE /\ ids' = r.ids
                   /\ pc' = "env"
                   /\ result' = result
    /\ UNCHANGED <<args, validator, i, kvs, all, input, output>>

\* one iteration of a keyValuesFrom* loop, and Load's return when it fails
LoopStep(stage, category, r) ==
    /\ pc = stage
    /\ log' = log \o r.events
    /\ IF stepFails(r)
       THEN /\ result' = failed(category, appendPairs(all, kvs))
            /\ pc' = "done"
            /\ UNCHANGED <<i, kvs>>
       ELSE /\ kvs' = kvs \o r.pairs
            /\ i' = i + 1
            /\ UNCHANGED <<pc, result>>
    /\ UNCHANGED <<args, validator, ids, all, input, output>>

\* the loop is over: Load appends its pairs and enters the next one
LoopDone(stage, next) ==
    /\ pc = stage
    /\ all' = appendPairs(all, kvs)
    /\ kvs' = <<>>
    /\ i' = 1
    /\ pc' = next
    /\ UNCHANGED <<args, validator, ids, result, log, input, output>>

EnvFile ==
    /\ i <= Len(args.EnvSources)
    /\ LoopStep("env", "env source files", envFileBody(args.EnvSources[i], i, ids))

EnvFilesDone ==
    /\ i > Len(args.EnvSources)
    /\ LoopDone("env", "literal")

LiteralSource ==
    /\ i <= Len(args.LiteralSources)
    /\ LoopStep("literal", "literal sources",
                literalSourceBody(args.LiteralSources[i], i, ids))

LiteralSourcesDone ==
    /\ i > Len(args.LiteralSources)
    /\ LoopDone("literal", "file")

FileSource ==
    /\ i <= Len(args.FileSources)
    /\ LoopStep("file", "file sources", fileSourceBody(args.FileSources[i], i, ids))

\* return append(all, pairs...), nil
FileSourcesDone ==
    /\ pc = "file"
    /\ i > Len(args.FileSources)
    /\ result' = [pairs |-> appendPairs(all, kvs), err |-> "nil"]
    /\ pc' = "done"
    /\ UNCHANGED <<args, validator, i, ids, kvs, all, log, input, output>>

Next ==
    \/ GetAgeIdentities
    \/ EnvFile
    \/ EnvFilesDone
    \/ LiteralSource
    \/ LiteralSourcesDone
    \/ FileSource
    \/ FileSourcesDone

Spec == Init /\ [][Next]_vars

(***************************************************************************)
(* Properties of Load                                                      *)
(***************************************************************************)
Done == pc = "done"
Succeeded == pc = "done" /\ result.err = "nil"
Failed == pc = "done" /\ result.err # "nil"

RECURSIVE Concat(_, _)
\* seqs[from] \o seqs[from + 1] \o ...
Concat(seqs, from) ==
    IF from > Len(seqs) THEN <<>> ELSE seqs[from] \o Concat(seqs, from + 1)

DecryptOps == {"decryptValue", "decryptInlineYAML"}

\* the positions of the log that hold a call of ops made for source idx of stage
Calls(ops, stage, idx) ==
    {n \in 1..Len(log) : log[n].op \in ops /\ log[n].stage = stage /\ log[n].idx = idx}

\* C1: when Load succeeds its result is the pairs of the env files (files in
\* EnvSources order, lines in file order), then one pair per literal source in
\* input order, then one pair per file source in input order: nothing is
\* dropped, merged or reordered, repeated keys included.
C1_OrderPreserved ==
    Succeeded =>
        LET E == [k \in 1..Len(args.EnvSources) |->
                     envFileBody(args.EnvSources[k], k, ids).pairs]
            L == [k \in 1..Len(args.LiteralSources) |->
                     literalSourceBody(args.LiteralSources[k], k, ids).pairs]
            F == [k \in 1..Len(args.FileSources) |->
                     fileSourceBody(args.FileSources[k], k, ids).pairs]
        IN  /\ result.pairs = Concat(E, 1) \o Concat(L, 1) \o Concat(F, 1)
            /\ \A k \in 1..Len(L) : Len(L[k]) = 1
            /\ \A k \in 1..Len(F) : Len(F[k]) = 1

\* env, literal and file sources all present, the key A three times
C1_Witness ==
    /\ Succeeded
    /\ args.EnvSources = <<<<"e">>>>
    /\ args.LiteralSources = <<<<"A", "=", "dq", "w", "dq">>>>
    /\ args.FileSources = <<<<"k", "=", "c">>>>
    /\ result.pairs = <<Pair(<<"A">>, <<"v">>), Pair(<<"A">>, <<"w">>),
                        Pair(<<"A">>, <<"w">>), Pair(<<"k">>, <<"ENC1", "s">>)>>

C3_EveryKeyValidated ==
    Succeeded =>
        \A n \in 1..Len(log) :
            log[n].op = "emit" =>
                \E m \in 1..(n - 1) :
                    /\ log[m].op = "validate" /\ log[m].ok
                    /\ log[m].stage = log[n].stage /\ log[m].idx = log[n].idx
                    /\ log[m].arg = log[n].arg

\* C3 amended: every pair of a successful result that comes from an env file
\* had its key passed to the validator and accepted before it was emitted;
\* the keys of literal and file sources are never passed to the validator.
C3_EnvKeysValidated ==
    Succeeded =>
        /\ \A n \in 1..Len(log) :
              (log[n].op = "emit" /\ log[n].stage = "env") =>
                  \E m \in 1..(n - 1) :
                      /\ log[m].op = "validate" /\ log[m].ok
                      /\ log[m].stage = "env" /\ log[m].idx = log[n].idx
                      /\ log[m].arg = log[n].arg
        /\ \A n \in 1..Len(log) : log[n].op = "validate" => log[n].stage = "env"
        /\ Len(result.pairs) = Cardinality({n \in 1..Len(log) : log[n].op = "emit"})

\* a result with a pair of an env file and a pair of a literal source
C3_Witness ==
    /\ Succeeded
    /\ \E n \in 1..Len(log) : log[n].op = "emit" /\ log[n].stage = "env"
    /\ \E n \in 1..Len(log) : log[n].op = "emit" /\ log[n].stage = "literal"
    /\ \E n \in 1..Len(log) : log[n].op = "emit" /\ log[n].stage = "file"

\* C5: the pair of a literal source whose key ends in ".age", and of a file
\* source whose path ends in ".age", has as key the parsed key less one
\* trailing ".age" when it ends with it, and no other character less.
C5_OnlySuffixStripped ==
    \A n \in 1..Len(log) :
        /\ (log[n].op = "emit" /\ log[n].stage = "literal") =>
              LET parsed == parseLiteralSource(args.LiteralSources[log[n].idx])
              IN  HasSuffix(parsed.key, AgeSuffix) =>
                      log[n].arg = TrimSuffix(parsed.key, AgeSuffix)
        /\ (log[n].op = "emit" /\ log[n].stage = "file") =>
              LET parsed == parseFileSource(args.FileSources[log[n].idx])
              IN  HasSuffix(parsed.filePath, AgeSuffix) =>
                      log[n].arg = TrimSuffix(parsed.keyName, AgeSuffix)

\* C6: in a successful Load one decrypt call is made for each env file whose
\* path ends in ".age", each literal source whose key ends in ".age" and each
\* file source whose path ends in ".age", its output is what is parsed or
\* emitted as the value, and no decrypt call is made for any other source.
C6_DecryptOncePerAge ==
    Succeeded =>
        /\ \A k \in 1..Len(args.EnvSources) :
              LET d == Calls(DecryptOps, "env", k)
              IN  IF HasSuffix(args.EnvSources[k], AgeSuffix)
                  THEN /\ Cardinality(d) = 1
                       /\ \A n \in d : \A m \in Calls({"lines"}, "env", k) :
                             n < m /\ log[m].arg = log[n].out
                  ELSE /\ d = {}
                       /\ \A m \in Calls({"lines"}, "env", k) :
                             log[m].arg = ldrLoad(args.EnvSources[k]).content
        /\ \A k \in 1..Len(args.EnvSources) : Cardinality(Calls({"lines"}, "env", k)) = 1
        /\ \A k \in 1..Len(args.LiteralSources) :
              LET d == Calls(DecryptOps, "literal", k)
                  s == args.LiteralSources[k]
                  key == SubSeq(s, 1, Index(s, "="))
              IN  IF HasSuffix(key, AgeSuffix)
                  THEN /\ Cardinality(d) = 1
                       /\ \A n \in d : \A m \in Calls({"emit"}, "literal", k) :
                             n < m /\ log[m].out = log[n].out
                  ELSE d = {}
        /\ \A k \in 1..Len(args.FileSources) :
              LET d == Calls(DecryptOps, "file", k)
                  s == args.FileSources[k]
                  path == SubSeq(s, Index(s, "=") + 2, Len(s))
              IN  IF HasSuffix(path, AgeSuffix)
                  THEN /\ Cardinality(d) = 1
                       /\ \A n \in d : \A m \in Calls({"emit"}, "file", k) :
                             n < m /\ log[m].out = log[n].out
                  ELSE /\ d = {}
                       /\ \A m \in Calls({"emit"}, "file", k) :
                             log[m].out = ldrLoad(path).content
        /\ \A n \in 1..Len(log) :
              log[n].op \in DecryptOps =>
                  log[n].idx \in 1..Len(CASE log[n].stage = "env" -> args.EnvSources
                                          [] log[n].stage = "literal" -> args.LiteralSources
                                          [] OTHER -> args.FileSources)

\* an encrypted env file, an encrypted file whose key does not end in ".age"
\* and a file of ciphertext that is not named ".age"
C6_Witness ==
    /\ Succeeded
    /\ args.EnvSources = <<<<"e", ".", "a", "g", "e">>>>
    /\ args.FileSources = <<<<"k", "=", "c">>, <<"k", "a", "=", "q", ".", "a", "g", "e">>>>
    /\ Cardinality({n \in 1..Len(log) : log[n].op \in DecryptOps}) = 2
    /\ result.pairs[Len(result.pairs) - 1] = Pair(<<"k">>, <<"ENC1", "s">>)
    /\ result.pairs[Len(result.pairs)].Value = <<"t">>

EndsInYAML(k) ==
    \/ Len(k) >= 5 /\ SubSeq(k, Len(k) - 4, Len(k)) = <<".", "y", "a", "m", "l">>
    \/ Len(k) >= 4 /\ SubSeq(k, Len(k) - 3, Len(k)) = <<".", "y", "m", "l">>

StageRank(stage) ==
    CASE stage = "ids" -> 0 [] stage = "env" -> 1 [] stage = "literal" -> 2 [] OTHER -> 3

\* C10: the calls of one Load are made in the order identities, env files,
\* literal sources, file sources, each list in input order, and nothing is
\* read, parsed or decrypted for a later source once a call has failed; in
\* particular no env file is read after an identity file failed.
C10_OrderAndShortCircuit ==
    /\ \A m, n \in 1..Len(log) :
          m < n =>
              /\ StageRank(log[m].stage) <= StageRank(log[n].stage)
              /\ log[m].stage = log[n].stage => log[m].idx <= log[n].idx
              /\ ~log[m].ok => (log[m].stage = log[n].stage /\ log[m].idx = log[n].idx)
    /\ (\E n \in 1..Len(log) : log[n].stage # "ids") => pc # "ids"
    /\ Failed =>
          /\ log # <<>>
          /\ ~log[Len(log)].ok
          /\ result.err =
                CASE log[Len(log)].stage = "ids" -> "age identity source files"
                  [] log[Len(log)].stage = "env" -> "env source files"
                  [] log[Len(log)].stage = "literal" -> "literal sources"
                  [] OTHER -> "file sources"
    /\ Succeeded => \A n \in 1..Len(log) : log[n].ok

\* the second identity file does not parse: no env file is read
C10_Witness ==
    /\ Failed
    /\ args.AgeIdentitySources = <<<<"i">>, <<"j">>>>
    /\ args.EnvSources # <<>>
    /\ args.FileSources # <<>>
    /\ \A n \in 1..Len(log) : log[n].stage = "ids"
    /\ Len(log) = 4

(***************************************************************************)
(* Specifications of the two parsers taken alone: the argument is drawn    *)
(* from every token sequence up to a bound, the action applies the parser. *)
(***************************************************************************)
SeqsUpTo(S, n) == UNION {[1..k -> S] : k \in 0..n}

LitAlphabet == {"k", "v", "=", "dq", "sq"}
ContentAlphabet == {"A", "B", "=", "#", "SP", "LF", "CR", "BOM", "BAD", "sq"}

LoadIdle ==
    /\ args = NoArgs /\ i = 0 /\ ids = <<>> /\ kvs = <<>> /\ all = <<>>
    /\ result = NoResult /\ log = <<>>

InitLit ==
    /\ pc = "literal"
    /\ validator = "envname"
    /\ input \in SeqsUpTo(LitAlphabet, MaxLitLen)
    /\ output = <<>>
    /\ LoadIdle

ParseLiteralSource ==
    /\ pc = "literal"
    /\ output' = parseLiteralSource(input)
    /\ pc' = "literalDone"
    /\ UNCHANGED <<args, validator, i, ids, kvs, all, result, log, input>>

SpecLit == InitLit /\ [][ParseLiteralSource]_vars

InitLines ==
    /\ pc = "lines"
    /\ validator \in Validators
    /\ input \in SeqsUpTo(ContentAlphabet, MaxContentLen)
    /\ output = <<>>
    /\ LoadIdle

KeyValuesFromLines ==
    /\ pc = "lines"
    /\ output' = keyValuesFromLines(input)
    /\ pc' = "linesDone"
    /\ UNCHANGED <<args, validator, i, ids, kvs, all, result, log, input>>

SpecLines == InitLines /\ [][KeyValuesFromLines]_vars

(***************************************************************************)
(* C4: parseLiteralSource                                                  *)
(***************************************************************************)
IsQuote(c) == c \in {"dq", "sq"}

\* one quote character less at the leading end, then one less at the trailing end
StripOneLayer(v) ==
    LET a == IF v # <<>> /\ IsQuote(v[1]) THEN Tail(v) ELSE v
    IN  IF a # <<>> /\ IsQuote(a[Len(a)]) THEN SubSeq(a, 1, Len(a) - 1) ELSE a

\* w is v less a run of quotes at each end, and no quote is left at either end
IsQuoteStripped(v, w) ==
    /\ \E a \in 0..Len(v) : \E b \in a..Len(v) :
          /\ w = SubSeq(v, a + 1, b)
          /\ \A k \in 1..a : IsQuote(v[k])
          /\ \A k \in (b + 1)..Len(v) : IsQuote(v[k])
    /\ w # <<>> => ~IsQuote(w[1]) /\ ~IsQuote(w[Len(w)])

LiteralWellFormed(s) == Index(s, "=") > 0

RECURSIVE PhysicalLines(_)
PhysicalLines(content) ==
    LET n == Index(content, "LF")
    IN  IF n = -1 THEN <<content>>
        ELSE <<SubSeq(content, 1, n)>> \o PhysicalLines(SubSeq(content, n + 2, Len(content)))

RECURSIVE Select(_, _, _)
\* the indices k of lines, in order, with Keep[k]
Select(n, keep, from) ==
    IF from > n THEN <<>>
    ELSE (IF keep[from] THEN <<from>> ELSE <<>>) \o Select(n, keep, from + 1)

LeadingSpaceStripped(line) ==
    LET starts == {k \in 1..(Len(line) + 1) : \A j \in 1..(k - 1) : line[j] \in IsSpace}
        k == CHOOSE m \in starts : \A o \in starts : o <= m
    IN  SubSeq(line, k, Len(line))

BeforeEq(line) ==
    IF \E k \in 1..Len(line) : line[k] = "="
    THEN SubSeq(line, 1, Index(line, "="))
    ELSE line

AfterEq(line) == SubSeq(line, Index(line, "=") + 2, Len(line))

HasEq(line) == \E k \in 1..Len(line) : line[k] = "="

\* C7 as stated: a line counts unless, leading whitespace stripped, it is
\* empty or starts with '#'
StatedCounts(line) ==
    LET l == LeadingSpaceStripped(line) IN l # <<>> /\ l[1] # "#"

\* the text of physical line k once a byte order mark opening the content and
\* the carriage return closing the line are set aside
LineText(lines, k) ==
    LET a == IF lines[k] # <<>> /\ lines[k][Len(lines[k])] = "CR"
             THEN SubSeq(lines[k], 1, Len(lines[k]) - 1) ELSE lines[k]
        b == IF k = 1 /\ a # <<>> /\ a[1] = "BOM" THEN Tail(a) ELSE a
    IN  LeadingSpaceStripped(b)

\* amended: the byte order mark opening the content is set aside first, and a
\* line whose key is empty does not count either
AmendedCounts(lines, k) ==
    LET l == LineText(lines, k) IN l # <<>> /\ l[1] # "#" /\ l[1] # "="

LinesOk == pc = "linesDone" /\ ~output.err

C8_ValueVerbatim_Stated ==
    LinesOk =>
        LET lines == PhysicalLines(input)
            keep  == [k \in 1..Len(lines) |-> AmendedCounts(lines, k)]
            sel   == Select(Len(lines), keep, 1)
        IN  /\ Len(output.kvs) = Len(sel)
            /\ \A j \in 1..Len(sel) :
                  output.kvs[j].Value =
                      IF HasEq(lines[sel[j]]) THEN AfterEq(lines[sel[j]])
                      ELSE Getenv(output.kvs[j].Key)

\* C8 amended: the value of a line with '=' and a non-empty accepted key is
\* everything after the first '=' up to the end of the line, byte for byte,
\* where one carriage return closing the line is not part of the line; the
\* value of a line without '=' is the environment's value for the key, empty
\* when unset.
C8_ValueVerbatim ==
    LinesOk =>
        LET lines == PhysicalLines(input)
            keep  == [k \in 1..Len(lines) |-> AmendedCounts(lines, k)]
            sel   == Select(Len(lines), keep, 1)
        IN  /\ Len(output.kvs) = Len(sel)
            /\ \A j \in 1..Len(sel) :
                  LET l == LineText(lines, sel[j])
                  IN  output.kvs[j].Value =
                          IF HasEq(l) THEN AfterEq(l) ELSE Getenv(BeforeEq(l))

\* a value that is a quote and a trailing space
C8_Witness ==
    /\ pc = "linesDone"
    /\ input = <<"A", "=", "sq", "SP">>
    /\ output.kvs = <<Pair(<<"A">>, <<"sq", "SP">>)>>

====
